---- MODULE Spec2Model ----
(***************************************************************************)
(* Execution / memory abstraction layer of Ginkgo: the accelerator         *)
(* executor's raw memory routines (alloc, free, the copy matrix,           *)
(* synchronize), the operation dispatch protocol and the device hooks,     *)
(* together with the backend runtime state they act on (current device,    *)
(* device memory, the per-device default stream, sticky device errors).    *)
(***************************************************************************)
EXTENDS Integers, Sequences, FiniteSets, TLC

(***************************************************************************)
(* Bounds of the model                                                     *)
(***************************************************************************)
NumDevices == 2     \* visible accelerator devices, ordinals 0..NumDevices-1
NumSlots == 2       \* device buffers that fit into one device's memory
MaxQueue == 1       \* kernels pending on one device's default stream
MaxVisible == 8     \* devices an installation's enumeration can see
MaxStream == 3      \* items pending on the stream a timer records into
MaxClock == 2       \* work items the timed stream executes
MaxCalls == 2       \* calls each of the threads sharing an executor makes
MaxExecs == 2       \* executor instances a program creates
MaxRefs == 2        \* handles, and objects, that refer to one executor

(***************************************************************************)
(* Constants of the program and of its tests                               *)
(***************************************************************************)
BufLen == 2         \* the tests work on buffers of two integers

Devices == 0 .. (NumDevices - 1)
Slots == 1 .. NumSlots

Zeros == <<0, 0>>
Data38 == <<3, 8>>
Unalloc == <<>>                    \* a device slot that holds no allocation
HostInputs == {Data38}             \* contents of the caller's array orig
FreshContents == {Zeros, Data38}   \* what freshly allocated memory may hold

OrigBuf == 1        \* the caller's host array orig
CopyBuf == 2        \* the caller's host array copy
HostBufs == {OrigBuf, CopyBuf}

(***************************************************************************)
(* Pointers                                                                *)
(***************************************************************************)
Null == [space |-> "null", dev |-> -1, idx |-> 0]
Wild == [space |-> "wild", dev |-> -1, idx |-> 0]
HostPtr(h) == [space |-> "host", dev |-> -1, idx |-> h]
DevPtr(d, i) == [space |-> "dev", dev |-> d, idx |-> i]
DevPtrs == {DevPtr(d, i) : d \in Devices, i \in Slots}
HostPtrs == {HostPtr(h) : h \in HostBufs}

(***************************************************************************)
(* Executors of the test fixture                                           *)
(***************************************************************************)
Kinds == {"reference", "omp", "cuda", "dpcpp", "hip"}
Executors == {"ref", "omp", "cuda", "dpcpp", "hip", "hip2"}
CpuExecs == {"ref", "omp"}
AccelExecs == Executors \ CpuExecs
\* the executors the tests allocate and copy with
MemExecs == {"omp", "hip", "hip2"}

kind(e) ==
    CASE e = "ref" -> "reference"
      [] e = "omp" -> "omp"
      [] e = "cuda" -> "cuda"
      [] e = "dpcpp" -> "dpcpp"
      [] OTHER -> "hip"

get_device_id(e) == IF e = "hip2" THEN NumDevices - 1 ELSE 0

VARIABLES
    curDev,     \* the calling thread's current device
    devMem,     \* devMem[d][i]: contents of slot i of device d, or Unalloc
    hostMem,    \* hostMem[h]: contents of the caller's host array h
    queue,      \* queue[d]: kernels pending on the default stream of d
    failed,     \* failed[d]: a kernel on d trapped; the error is sticky
    lastCall,   \* what the last call of the caller did and returned
    rt,         \* the last successful copy, for following a round trip
    reported,   \* executors a call on which has reported a device failure
    driver,     \* what the runtime's device enumeration sees and reports
    timer,      \* the stream and the two time points of an event timer
    threads,    \* the threads sharing an executor, each with its own device
    life,       \* executor instances, their handles and their devices
    sel,        \* a request to the timer factory and the timer it returned
    mg,         \* Multigrid factory parameters and the solver built from them
    bicg,       \* a batch Bicgstab solver and the parameters of its factory
    red,        \* a kernel reduction: its range, its partition, its result
    fb,         \* an Fbcsr matrix on the reference and on the OpenMP executor
    gm,         \* a Gmres solver and the parameters of its factory
    mpi         \* mpi::request / mpi::status objects and their arrays

\* the library objects above the executor layer
ext == <<life, sel, mg, bicg, red, fb, gm, mpi>>

vars == <<curDev, devMem, hostMem, queue, failed, lastCall, rt, reported,
          driver, timer, threads, ext>>

\* the state that the calls of the single caller thread leave alone
aux == <<driver, timer, threads, ext>>

\* the value of a variable whose object does not exist in a scenario
Absent == <<>>

NoExt ==
    [life |-> Absent, sel |-> Absent, mg |-> Absent, bicg |-> Absent,
     red |-> Absent, fb |-> Absent, gm |-> Absent, mpi |-> Absent]

ExtIs(x) ==
    /\ life = x.life
    /\ sel = x.sel
    /\ mg = x.mg
    /\ bicg = x.bicg
    /\ red = x.red
    /\ fb = x.fb
    /\ gm = x.gm
    /\ mpi = x.mpi

World == [dm |-> devMem, hm |-> hostMem, q |-> queue, f |-> failed]

(***************************************************************************)
(* The backend runtime, as far as the executor's calls observe it          *)
(***************************************************************************)
ValidDev(w, p) ==
    /\ p.space = "dev"
    /\ p.dev \in Devices
    /\ p.idx \in Slots
    /\ w.dm[p.dev][p.idx] # Unalloc

ValidHost(p) == p.space = "host" /\ p.idx \in HostBufs

Kernels == {"init_data", "check_data"}

\* init_data writes {3, 8}; check_data traps unless the data is {3, 8}.
\* A kernel that touches memory its device does not hold faults.
KernelStep(w, d, k) ==
    IF w.f[d] THEN w
    ELSE IF ~(ValidDev(w, k.ptr) /\ k.ptr.dev = d)
        THEN [w EXCEPT !.f[d] = TRUE]
    ELSE IF k.name = "init_data"
        THEN [w EXCEPT !.dm[d][k.ptr.idx] = Data38]
    ELSE [w EXCEPT !.f[d] = (w.dm[d][k.ptr.idx] # Data38)]

\* one pending kernel of device d leaves the stream and executes; a trap
\* destroys the context and with it the work still pending
StreamStep(w, d) ==
    LET w1 == KernelStep(w, d, Head(w.q[d]))
    IN [w1 EXCEPT !.q[d] = IF w1.f[d] THEN <<>> ELSE Tail(w.q[d])]

RECURSIVE Drain(_, _)
\* everything pending on the default stream of d executes, in issue order
Drain(w, d) == IF w.q[d] = <<>> THEN w ELSE Drain(StreamStep(w, d), d)

Contents(w, p) == IF p.space = "host" THEN w.hm[p.idx] ELSE w.dm[p.dev][p.idx]

Store(w, p, n, data) ==
    LET old == Contents(w, p)
        new == [i \in 1 .. BufLen |-> IF i <= n THEN data[i] ELSE old[i]]
    IN IF p.space = "host" THEN [w EXCEPT !.hm[p.idx] = new]
       ELSE [w EXCEPT !.dm[p.dev][p.idx] = new]

FreeSlots(w, d) == {i \in Slots : w.dm[d][i] = Unalloc}

LowestFree(w, d) == CHOOSE i \in FreeSlots(w, d) : \A j \in FreeSlots(w, d) : i <= j

\* cudaMalloc on the current device: the outcomes the runtime can produce.
\* wrote tells whether the runtime stored into the caller's pointer variable;
\* after a failure it may or may not have stored a null pointer.
cudaMalloc(w, cur, n) ==
    IF w.f[cur]
        THEN {[err |-> "cudaErrorLaunchFailure", wrote |-> wr, ptr |-> Null,
               w |-> w] : wr \in BOOLEAN}
    ELSE IF n = 0
        THEN {[err |-> "cudaSuccess", wrote |-> TRUE, ptr |-> Null, w |-> w]}
    ELSE IF n > BufLen \/ FreeSlots(w, cur) = {}
        THEN {[err |-> "cudaErrorMemoryAllocation", wrote |-> wr,
               ptr |-> Null, w |-> w] : wr \in BOOLEAN}
    ELSE {[err |-> "cudaSuccess", wrote |-> TRUE,
           ptr |-> DevPtr(cur, LowestFree(w, cur)),
           w |-> [w EXCEPT !.dm[cur][LowestFree(w, cur)] = c]] :
              c \in FreshContents}

\* cudaFree: releasing waits for the work pending on the current device
cudaFree(w, cur, p) ==
    IF w.f[cur] THEN [err |-> "cudaErrorLaunchFailure", w |-> w]
    ELSE IF p = Null THEN [err |-> "cudaSuccess", w |-> w]
    ELSE IF ~ValidDev(w, p) THEN [err |-> "cudaErrorInvalidValue", w |-> w]
    ELSE LET w1 == Drain(w, cur)
             w2 == [w1 EXCEPT !.dm[p.dev][p.idx] = Unalloc]
         IN [err |-> IF w1.f[cur] THEN "cudaErrorLaunchFailure"
                     ELSE "cudaSuccess",
             w |-> w2]

SourceOk(w, p, direction) ==
    IF direction = "cudaMemcpyHostToDevice" THEN ValidHost(p)
    ELSE ValidDev(w, p)

DestOk(w, p, direction) ==
    IF direction = "cudaMemcpyDeviceToHost" THEN ValidHost(p)
    ELSE ValidDev(w, p)

\* cudaMemcpy: a blocking copy in the default stream of the current device,
\* ordered after the kernels pending on that stream
cudaMemcpy(w, cur, dst, src, n, direction) ==
    IF w.f[cur] THEN [err |-> "cudaErrorLaunchFailure", w |-> w]
    ELSE IF n = 0 THEN [err |-> "cudaSuccess", w |-> w]
    ELSE IF ~(SourceOk(w, src, direction) /\ DestOk(w, dst, direction))
        THEN [err |-> "cudaErrorInvalidValue", w |-> w]
    ELSE LET w1 == Drain(w, cur)
         IN IF w1.f[cur]
                THEN [err |-> "cudaErrorLaunchFailure", w |-> w1]
            ELSE [err |-> "cudaSuccess",
                  w |-> Store(w1, dst, n, Contents(w1, src))]

\* cudaDeviceSynchronize: waits for the current device and reports its error
cudaDeviceSynchronize(w, cur) ==
    LET w1 == Drain(w, cur)
    IN [err |-> IF w1.f[cur] THEN "cudaErrorLaunchFailure" ELSE "cudaSuccess",
        w |-> w1]

(***************************************************************************)
(* Error translation                                                       *)
(***************************************************************************)
\* ENSURE_ALLOCATED(_ptr, _dev, _size): raises AllocationError for a null _ptr
ENSURE_ALLOCATED(ptr) == ptr = Null

\* NOT_COMPILED(_module): the body of a kernel of a module that was not built
NOT_COMPILED(module) ==
    [raised |-> TRUE, error |-> "NotSupported", ran |-> <<>>]

BackendCall(fn, dst, src, n, direction) ==
    [fn |-> fn, dst |-> dst, src |-> src, n |-> n, direction |-> direction]

\* the indeterminate value of the local dev_ptr before cudaMalloc stores to it
UninitPtrs == {Null, Wild}

(***************************************************************************)
(* The executor's raw routines.  Each takes the backend state w and the    *)
(* current device cur and yields what the routine returns or raises:       *)
(* status is "ok" or the error raised, code the backend's status, w the    *)
(* backend state afterwards, during the device that was current while the  *)
(* backend call ran, dev the current device when the routine is left.      *)
(***************************************************************************)
\* raw_alloc that selects its device and leaves it selected
GpuExecutor_raw_alloc_switching(w, cur, this, num_bytes) ==
    {LET dev_ptr == IF b.wrote THEN b.ptr ELSE u
     IN [status |-> IF ENSURE_ALLOCATED(dev_ptr) THEN "AllocationError"
                    ELSE "ok",
         errcode |-> "none",
         ptr |-> IF ENSURE_ALLOCATED(dev_ptr) THEN Null ELSE dev_ptr,
         code |-> b.err,
         w |-> b.w,
         calls |-> <<BackendCall("cudaMalloc", Null, Null, num_bytes, "none")>>,
         during |-> get_device_id(this),
         dev |-> get_device_id(this)] :
        b \in cudaMalloc(w, get_device_id(this), num_bytes), u \in UninitPtrs}

\* raw_alloc that, after a failed request, retries with the largest size that
\* fits and keeps that memory although it raises
GpuExecutor_raw_alloc_leaking(w, cur, this, num_bytes) ==
    {LET dev_ptr == IF b.wrote THEN b.ptr ELSE u
         retry == IF b.err = "cudaSuccess" \/ FreeSlots(b.w, cur) = {} THEN b.w
                  ELSE [b.w EXCEPT !.dm[cur][LowestFree(b.w, cur)] = Zeros]
     IN [status |-> IF ENSURE_ALLOCATED(dev_ptr) THEN "AllocationError"
                    ELSE "ok",
         errcode |-> "none",
         ptr |-> IF ENSURE_ALLOCATED(dev_ptr) THEN Null ELSE dev_ptr,
         code |-> b.err,
         w |-> retry,
         calls |-> <<BackendCall("cudaMalloc", Null, Null, num_bytes, "none")>>,
         during |-> cur,
         dev |-> cur] :
        b \in cudaMalloc(w, cur, num_bytes), u \in UninitPtrs}

GpuExecutor_raw_alloc(w, cur, this, num_bytes) ==
    {LET dev_ptr == IF b.wrote THEN b.ptr ELSE u
     IN [status |-> IF ENSURE_ALLOCATED(dev_ptr) THEN "AllocationError"
                    ELSE "ok",
         errcode |-> "none",
         ptr |-> IF ENSURE_ALLOCATED(dev_ptr) THEN Null ELSE dev_ptr,
         code |-> b.err,
         w |-> b.w,
         calls |-> <<BackendCall("cudaMalloc", Null, Null, num_bytes, "none")>>,
         during |-> cur,
         dev |-> cur] :
        b \in cudaMalloc(w, cur, num_bytes), u \in UninitPtrs}

\* free that raises what the backend's release call reports
GpuExecutor_free_checked(w, cur, this, ptr) ==
    LET b == cudaFree(w, cur, ptr)
    IN [status |-> IF b.err # "cudaSuccess" THEN "CudaError" ELSE "ok",
        errcode |-> IF b.err # "cudaSuccess" THEN b.err ELSE "none",
        code |-> b.err,
        w |-> b.w,
        calls |-> <<BackendCall("cudaFree", ptr, Null, 0, "none")>>,
        during |-> cur,
        dev |-> cur]

GpuExecutor_free(w, cur, this, ptr) ==
    LET b == cudaFree(w, cur, ptr)
    IN [status |-> "ok",
        errcode |-> "none",
        code |-> b.err,
        w |-> b.w,
        calls |-> <<BackendCall("cudaFree", ptr, Null, 0, "none")>>,
        during |-> cur,
        dev |-> cur]

\* host-to-device copy that asks the backend for a device-to-host transfer
CpuExecutor_raw_copy_to_Gpu_reversed(w, cur, this, dest, num_bytes, src_ptr, dest_ptr) ==
    LET b == cudaMemcpy(w, cur, dest_ptr, src_ptr, num_bytes,
                        "cudaMemcpyDeviceToHost")
    IN [status |-> IF b.err # "cudaSuccess" THEN "CudaError" ELSE "ok",
        errcode |-> IF b.err # "cudaSuccess" THEN b.err ELSE "none",
        code |-> b.err,
        w |-> b.w,
        calls |-> <<BackendCall("cudaMemcpy", dest_ptr, src_ptr, num_bytes,
                                "cudaMemcpyDeviceToHost")>>,
        during |-> cur,
        dev |-> cur]

CpuExecutor_raw_copy_to_Gpu(w, cur, this, dest, num_bytes, src_ptr, dest_ptr) ==
    LET b == cudaMemcpy(w, cur, dest_ptr, src_ptr, num_bytes,
                        "cudaMemcpyHostToDevice")
    IN [status |-> IF b.err # "cudaSuccess" THEN "CudaError" ELSE "ok",
        errcode |-> IF b.err # "cudaSuccess" THEN b.err ELSE "none",
        code |-> b.err,
        w |-> b.w,
        calls |-> <<BackendCall("cudaMemcpy", dest_ptr, src_ptr, num_bytes,
                                "cudaMemcpyHostToDevice")>>,
        during |-> cur,
        dev |-> cur]

\* device-to-host copy that transfers one element too few
GpuExecutor_raw_copy_to_Cpu_short(w, cur, this, dest, num_bytes, src_ptr, dest_ptr) ==
    LET b == cudaMemcpy(w, cur, dest_ptr, src_ptr, num_bytes - 1,
                        "cudaMemcpyDeviceToHost")
    IN [status |-> IF b.err # "cudaSuccess" THEN "CudaError" ELSE "ok",
        errcode |-> IF b.err # "cudaSuccess" THEN b.err ELSE "none",
        code |-> b.err,
        w |-> b.w,
        calls |-> <<BackendCall("cudaMemcpy", dest_ptr, src_ptr, num_bytes - 1,
                                "cudaMemcpyDeviceToHost")>>,
        during |-> cur,
        dev |-> cur]

GpuExecutor_raw_copy_to_Cpu(w, cur, this, dest, num_bytes, src_ptr, dest_ptr) ==
    LET b == cudaMemcpy(w, cur, dest_ptr, src_ptr, num_bytes,
                        "cudaMemcpyDeviceToHost")
    IN [status |-> IF b.err # "cudaSuccess" THEN "CudaError" ELSE "ok",
        errcode |-> IF b.err # "cudaSuccess" THEN b.err ELSE "none",
        code |-> b.err,
        w |-> b.w,
        calls |-> <<BackendCall("cudaMemcpy", dest_ptr, src_ptr, num_bytes,
                                "cudaMemcpyDeviceToHost")>>,
        during |-> cur,
        dev |-> cur]

\* device-to-device copy that drops the backend's status
GpuExecutor_raw_copy_to_Gpu_unchecked(w, cur, this, dest, num_bytes, src_ptr, dest_ptr) ==
    LET b == cudaMemcpy(w, cur, dest_ptr, src_ptr, num_bytes,
                        "cudaMemcpyDeviceToDevice")
    IN [status |-> "ok",
        errcode |-> "none",
        code |-> b.err,
        w |-> b.w,
        calls |-> <<BackendCall("cudaMemcpy", dest_ptr, src_ptr, num_bytes,
                                "cudaMemcpyDeviceToDevice")>>,
        during |-> cur,
        dev |-> cur]

GpuExecutor_raw_copy_to_Gpu(w, cur, this, dest, num_bytes, src_ptr, dest_ptr) ==
    LET b == cudaMemcpy(w, cur, dest_ptr, src_ptr, num_bytes,
                        "cudaMemcpyDeviceToDevice")
    IN [status |-> IF b.err # "cudaSuccess" THEN "CudaError" ELSE "ok",
        errcode |-> IF b.err # "cudaSuccess" THEN b.err ELSE "none",
        code |-> b.err,
        w |-> b.w,
        calls |-> <<BackendCall("cudaMemcpy", dest_ptr, src_ptr, num_bytes,
                                "cudaMemcpyDeviceToDevice")>>,
        during |-> cur,
        dev |-> cur]

GpuExecutor_synchronize(w, cur, this) ==
    LET b == cudaDeviceSynchronize(w, cur)
    IN [status |-> IF b.err # "cudaSuccess" THEN "CudaError" ELSE "ok",
        errcode |-> IF b.err # "cudaSuccess" THEN b.err ELSE "none",
        code |-> b.err,
        w |-> b.w,
        calls |-> <<BackendCall("cudaDeviceSynchronize", Null, Null, 0, "none")>>,
        during |-> cur,
        dev |-> cur]

\* the statuses the device enumeration of the runtime reports
QueryStatuses ==
    {"cudaSuccess", "cudaErrorNoDevice", "cudaErrorInsufficientDriver",
     "cudaErrorLaunchFailure"}

\* installations: how many devices are visible and what the query reports
\* (cudaErrorNoDevice only without a device; a sticky failure of earlier
\* work only with one)
DriverStates ==
    {drv \in [visible : 0 .. MaxVisible, status : QueryStatuses] :
        /\ drv.status = "cudaErrorNoDevice" => drv.visible = 0
        /\ drv.status = "cudaErrorLaunchFailure" => drv.visible > 0}

\* cudaGetDeviceCount(&count): on success the visible count is stored; with
\* a non-success status the runtime may leave count alone or store into it
cudaGetDeviceCount(drv) ==
    IF drv.status = "cudaSuccess"
        THEN {[err |-> "cudaSuccess", wrote |-> TRUE, count |-> drv.visible]}
    ELSE {[err |-> drv.status, wrote |-> wr, count |-> c] :
             wr \in BOOLEAN, c \in {0, drv.visible}}

\* getDeviceCount that returns whatever the query stored
GpuExecutor_getDeviceCount_unguarded(drv) ==
    {LET deviceCount == IF b.wrote THEN b.count ELSE 0
     IN [status |-> "ok",
         errcode |-> "none",
         code |-> b.err,
         value |-> deviceCount] : b \in cudaGetDeviceCount(drv)}

GpuExecutor_getDeviceCount(drv) ==
    {LET deviceCount == IF b.wrote THEN b.count ELSE 0
     IN [status |-> IF deviceCount = 0 THEN "CudaError" ELSE "ok",
         errcode |-> IF deviceCount = 0 THEN b.err ELSE "none",
         code |-> b.err,
         value |-> IF deviceCount = 0 THEN -1 ELSE deviceCount] :
        b \in cudaGetDeviceCount(drv)}

(***************************************************************************)
(* The event timer.  tm.stream is the stream of the timer's executor: its  *)
(* items are work items and the markers of recorded events; tm.clock is    *)
(* the device time in milliseconds, one per executed work item; an event   *)
(* is "created", "pending" (recorded, marker not reached) or "fired".      *)
(***************************************************************************)
TimePoints == {"start", "stop"}

Items(tm) == {tm.stream[i] : i \in DOMAIN tm.stream}

Works(tm) == Cardinality({i \in DOMAIN tm.stream : tm.stream[i] = "work"})

FiredAt(tm, ev) == IF ev = "start" THEN tm.startAt ELSE tm.stopAt

\* the device executes the item at the head of the stream
Fire(tm) ==
    LET it == Head(tm.stream)
    IN IF it = "work"
           THEN [tm EXCEPT !.stream = Tail(@), !.clock = @ + 1]
       ELSE IF it = "start"
           THEN [tm EXCEPT !.stream = Tail(@), !.start = "fired",
                           !.startAt = tm.clock]
       ELSE [tm EXCEPT !.stream = Tail(@), !.stop = "fired",
                       !.stopAt = tm.clock]

RECURSIVE WaitFor(_, _)
\* the stream runs until the marker of ev has been reached
WaitFor(tm, ev) == IF ev \notin Items(tm) THEN tm ELSE WaitFor(Fire(tm), ev)

\* cudaEventRecord(event, stream): enqueues the marker and returns
cudaEventRecord(tm, ev) ==
    [err |-> "cudaSuccess",
     tm |-> [tm EXCEPT !.stream = Append(@, ev), ![ev] = "pending",
                       !.ahead = IF ev = "stop" THEN tm.clock + Works(tm)
                                 ELSE @]]

\* cudaEventSynchronize(event): blocks until the recorded marker has fired;
\* returns at once for an event that was never recorded
cudaEventSynchronize(tm, ev) == [err |-> "cudaSuccess", tm |-> WaitFor(tm, ev)]

\* cudaEventElapsedTime(&ms, start, stop)
cudaEventElapsedTime(tm, start, stop) ==
    IF tm[start] = "created" \/ tm[stop] = "created"
        THEN [err |-> "cudaErrorInvalidResourceHandle", ms |-> 0]
    ELSE IF tm[start] = "pending" \/ tm[stop] = "pending"
        THEN [err |-> "cudaErrorNotReady", ms |-> 0]
    ELSE [err |-> "cudaSuccess", ms |-> FiredAt(tm, stop) - FiredAt(tm, start)]

CudaTimer_record(tm, time) ==
    LET b == cudaEventRecord(tm, time)
    IN [status |-> IF b.err # "cudaSuccess" THEN "CudaError" ELSE "ok",
        code |-> b.err,
        tm |-> b.tm]

\* difference that waits for the start event instead of the stop event
CudaTimer_difference_waits_for_start(tm, start, stop) ==
    LET s == cudaEventSynchronize(tm, start)
        e == cudaEventElapsedTime(s.tm, start, stop)
        sync == BackendCall("cudaEventSynchronize", Null, Null, 0, "none")
        query == BackendCall("cudaEventElapsedTime", Null, Null, 0, "none")
    IN IF s.err # "cudaSuccess"
           THEN [status |-> "CudaError", errcode |-> s.err, code |-> s.err,
                 value |-> -1, tm |-> s.tm, calls |-> <<sync>>]
       ELSE IF e.err # "cudaSuccess"
           THEN [status |-> "CudaError", errcode |-> e.err, code |-> e.err,
                 value |-> -1, tm |-> s.tm, calls |-> <<sync, query>>]
       ELSE [status |-> "ok", errcode |-> "none", code |-> e.err,
             value |-> e.ms * 1000000, tm |-> s.tm,
             calls |-> <<sync, query>>]

CudaTimer_difference(tm, start, stop) ==
    LET s == cudaEventSynchronize(tm, stop)
        e == cudaEventElapsedTime(s.tm, start, stop)
        sync == BackendCall("cudaEventSynchronize", Null, Null, 0, "none")
        query == BackendCall("cudaEventElapsedTime", Null, Null, 0, "none")
    IN IF s.err # "cudaSuccess"
           THEN [status |-> "CudaError", errcode |-> s.err, code |-> s.err,
                 value |-> -1, tm |-> s.tm, calls |-> <<sync>>]
       ELSE IF e.err # "cudaSuccess"
           THEN [status |-> "CudaError", errcode |-> e.err, code |-> e.err,
                 value |-> -1, tm |-> s.tm, calls |-> <<sync, query>>]
       ELSE [status |-> "ok", errcode |-> "none", code |-> e.err,
             value |-> e.ms * 1000000, tm |-> s.tm,
             calls |-> <<sync, query>>]

\* Executor::copy_from: the destination hands itself to the source executor,
\* whose raw_copy_to overload for the destination's type does the transfer
Executor_copy_from(w, cur, this, src_exec, num_bytes, src_ptr, dest_ptr) ==
    IF src_exec \in CpuExecs
        THEN [r |-> CpuExecutor_raw_copy_to_Gpu(w, cur, src_exec, this,
                        num_bytes, src_ptr, dest_ptr),
              routines |-> <<"CpuExecutor::raw_copy_to(GpuExecutor)">>]
    ELSE IF this \in CpuExecs
        THEN [r |-> GpuExecutor_raw_copy_to_Cpu(w, cur, src_exec, this,
                        num_bytes, src_ptr, dest_ptr),
              routines |-> <<"GpuExecutor::raw_copy_to(CpuExecutor)">>]
    ELSE [r |-> GpuExecutor_raw_copy_to_Gpu(w, cur, src_exec, this,
                        num_bytes, src_ptr, dest_ptr),
          routines |-> <<"GpuExecutor::raw_copy_to(GpuExecutor)">>]

(***************************************************************************)
(* Operation dispatch                                                      *)
(***************************************************************************)
\* the kernel modules of this build; the other modules are device hooks
CompiledModules == {"reference", "omp", "hip"}

Operations == {"ExampleOperation", "HostOperation", "set_all_statuses"}

\* the backend kinds an operation overrides run for
Overrides(op) == IF op = "HostOperation" THEN {"reference", "omp"} ELSE Kinds

\* ExampleOperation whose HIP override does what the CUDA override does
ExampleOperation_run_hip_as_cuda(k, cur) ==
    CASE k = "omp" -> -1
      [] k = "reference" -> -2
      [] k = "cuda" -> -3
      [] k = "dpcpp" -> -4
      [] OTHER -> -3

\* what the override of ExampleOperation for kind k leaves in value
ExampleOperation_run(k, cur) ==
    CASE k = "omp" -> -1
      [] k = "reference" -> -2
      [] k = "cuda" -> -3
      [] k = "dpcpp" -> -4
      [] OTHER -> cur

\* Operation::run(std::shared_ptr<const XExecutor>) without an override
Operation_run_default(k) ==
    [raised |-> TRUE, error |-> "NotSupported", ran |-> <<>>]

\* a hook that silently runs the reference kernel instead
set_all_statuses_hook_fallback(module) ==
    [raised |-> FALSE, error |-> "none", ran |-> <<"reference">>]

\* kernels::GKO_HOOK_MODULE::set_all_statuses of a module that was not built
set_all_statuses_hook(module) == NOT_COMPILED(module)

\* kernels::<module>::set_all_statuses of a module that was built
set_all_statuses_kernel(module) ==
    [raised |-> FALSE, error |-> "none", ran |-> <<module>>]

set_all_statuses(module) ==
    IF module \in CompiledModules THEN set_all_statuses_kernel(module)
    ELSE set_all_statuses_hook(module)

\* Executor::run(op): the executor calls op.run with itself, so the overload
\* for its own kind is entered; accelerator executors bind their device for
\* the duration of the body and restore the caller's device afterwards
Executor_run(cur, this, op, v0) ==
    LET k == kind(this)
        during == IF this \in AccelExecs THEN get_device_id(this) ELSE cur
        body == IF k \notin Overrides(op) THEN Operation_run_default(k)
                ELSE IF op = "ExampleOperation"
                    THEN [raised |-> FALSE, error |-> "none", ran |-> <<k>>]
                ELSE set_all_statuses(k)
    IN [status |-> IF body.raised THEN body.error ELSE "ok",
        invoked |-> <<k>>,
        ran |-> body.ran,
        value |-> IF body.ran = <<>> THEN v0
                  ELSE IF op = "ExampleOperation"
                      THEN ExampleOperation_run(body.ran[1], during)
                  ELSE 0,
        during |-> during,
        dev |-> cur]

(***************************************************************************)
(* State machine of a caller thread using the executors                    *)
(***************************************************************************)
NoCall ==
    [op |-> "none", exec |-> "none", from |-> "none", n |-> 0,
     srcPtr |-> Null, ptr |-> Null, status |-> "ok", code |-> "none",
     errcode |-> "none", devBefore |-> -1, devDuring |-> -1, calls |-> <<>>,
     routines |-> <<>>, operation |-> "none", invoked |-> <<>>, ran |-> <<>>,
     valueBefore |-> -1, value |-> -1, devFailed |-> FALSE,
     pending |-> <<>>]

NoRt == [x |-> <<>>, a |-> Null, y |-> Null, n |-> 0, done |-> FALSE, z |-> <<>>]

AllocSizes == {0, BufLen, BufLen + 1}
\* the pointers a caller passes to e.free
FreeArgs(e) == {Null, Wild} \cup {DevPtr(get_device_id(e), i) : i \in Slots}
\* the pointers a caller passes for memory of executor e: its host arrays
\* (results go to the array copy), or the slots of the device e is bound to
SrcPtrs(e) ==
    IF e \in CpuExecs THEN HostPtrs
    ELSE {DevPtr(get_device_id(e), i) : i \in Slots}

DstPtrs(e) ==
    IF e \in CpuExecs THEN {HostPtr(CopyBuf)}
    ELSE {DevPtr(get_device_id(e), i) : i \in Slots}

\* the arguments <<num_bytes, src_ptr, dest_ptr>> of e.copy_from(from, ...)
CopyArgs(e, from) ==
    {<<0, Null, Null>>} \cup
    {<<BufLen, sp, dp>> : sp \in SrcPtrs(from), dp \in DstPtrs(e)}
InitialValues == {-1, 0, 7}

SetWorld(w) ==
    /\ devMem' = w.dm
    /\ hostMem' = w.hm
    /\ queue' = w.q
    /\ failed' = w.f

\* the enumeration of a working installation
NormalDriver == [visible |-> NumDevices, status |-> "cudaSuccess"]

\* two time points fresh from create_time_point, and an empty stream
NoTimer ==
    [stream |-> <<>>, clock |-> 0, start |-> "created", stop |-> "created",
     startAt |-> 0, stopAt |-> 0, ahead |-> 0]

NoThreads == <<>>

Init ==
    /\ ExtIs(NoExt)
    /\ reported = {}
    /\ driver = NormalDriver
    /\ timer = NoTimer
    /\ threads = NoThreads
    /\ curDev \in Devices
    /\ devMem = [d \in Devices |-> [i \in Slots |-> Unalloc]]
    /\ \E x \in HostInputs : hostMem = [h \in HostBufs |->
                                IF h = OrigBuf THEN x ELSE Zeros]
    /\ queue = [d \in Devices |-> <<>>]
    /\ failed = [d \in Devices |-> FALSE]
    /\ lastCall = NoCall
    /\ rt = NoRt

\* the caller selects a device (hipSetDevice)
SetDevice(c) ==
    /\ c # curDev
    /\ curDev' = c
    /\ lastCall' = [NoCall EXCEPT !.op = "set_device"]
    /\ rt' = NoRt
    /\ UNCHANGED <<devMem, hostMem, queue, failed, reported, aux>>

\* the caller launches a kernel on the current device's default stream
Launch(k, p) ==
    /\ Len(queue[curDev]) < MaxQueue
    /\ ~failed[curDev]
    /\ p.dev = curDev
    /\ queue' = [queue EXCEPT ![curDev] = Append(@, [name |-> k, ptr |-> p])]
    /\ lastCall' = [NoCall EXCEPT !.op = "launch"]
    /\ rt' = NoRt
    /\ UNCHANGED <<curDev, devMem, hostMem, failed, reported, aux>>

\* a device executes the kernel at the head of its stream
DeviceStep(d) ==
    /\ queue[d] # <<>>
    /\ SetWorld(StreamStep(World, d))
    /\ lastCall' = [NoCall EXCEPT !.op = "device"]
    /\ rt' = NoRt
    /\ UNCHANGED <<curDev, reported, aux>>

Returned(op, e, r) ==
    [NoCall EXCEPT !.op = op, !.exec = e, !.status = r.status,
                   !.code = r.code, !.errcode = r.errcode,
                   !.devBefore = curDev, !.devDuring = r.during,
                   !.calls = r.calls,
                   !.devFailed = r.w.f[get_device_id(e)]]

\* the executors that have seen a call report the sticky device failure
Reported(e, r) ==
    IF r.code = "cudaErrorLaunchFailure" THEN reported \cup {e} ELSE reported

Alloc(e, n) ==
    /\ e \in AccelExecs
    /\ \E r \in GpuExecutor_raw_alloc(World, curDev, e, n) :
        /\ SetWorld(r.w)
        /\ curDev' = r.dev
        /\ lastCall' = [Returned("alloc", e, r) EXCEPT !.n = n, !.ptr = r.ptr]
        /\ reported' = Reported(e, r)
    /\ rt' = NoRt
    /\ UNCHANGED aux

Free(e, p) ==
    /\ e \in AccelExecs
    /\ LET r == GpuExecutor_free(World, curDev, e, p)
       IN /\ SetWorld(r.w)
          /\ curDev' = r.dev
          /\ lastCall' = [Returned("free", e, r) EXCEPT !.ptr = p]
          /\ reported' = Reported(e, r)
    /\ rt' = NoRt
    /\ UNCHANGED aux

Prefix(data, n) == [i \in 1 .. n |-> data[i]]

\* follows a copy x -> y and the reverse copy y -> z into a fresh buffer
RoundTrip(r, n, sp, dp) ==
    IF r.status # "ok" \/ n = 0 \/ sp = dp THEN NoRt
    ELSE IF /\ ~rt.done /\ rt.n = n /\ rt.y = sp
            /\ dp.space = rt.a.space /\ dp.dev = rt.a.dev /\ dp # rt.a
        THEN [rt EXCEPT !.done = TRUE, !.z = Prefix(Contents(r.w, dp), n)]
    ELSE [x |-> Prefix(Contents(r.w, sp), n), a |-> sp, y |-> dp, n |-> n,
          done |-> FALSE, z |-> <<>>]

CopyFrom(e, from, n, sp, dp) ==
    /\ e \in AccelExecs \/ from \in AccelExecs
    /\ LET c == Executor_copy_from(World, curDev, e, from, n, sp, dp)
       IN /\ SetWorld(c.r.w)
          /\ curDev' = c.r.dev
          /\ lastCall' = [Returned("copy_from", e, c.r) EXCEPT
                            !.from = from, !.n = n, !.srcPtr = sp, !.ptr = dp,
                            !.routines = c.routines,
                            !.devFailed = FALSE,
                            !.pending = IF from \in AccelExecs
                                            THEN queue[get_device_id(from)]
                                        ELSE <<>>]
          /\ rt' = RoundTrip(c.r, n, sp, dp)
          /\ reported' = Reported(e, c.r)
    /\ UNCHANGED aux

Synchronize(e) ==
    /\ e \in AccelExecs
    /\ LET r == GpuExecutor_synchronize(World, curDev, e)
       IN /\ SetWorld(r.w)
          /\ curDev' = r.dev
          /\ lastCall' = Returned("synchronize", e, r)
          /\ reported' = Reported(e, r)
    /\ rt' = NoRt
    /\ UNCHANGED aux

Run(e, op, v0) ==
    /\ LET r == Executor_run(curDev, e, op, v0)
       IN /\ curDev' = r.dev
          /\ lastCall' = [NoCall EXCEPT !.op = "run", !.exec = e,
                            !.status = r.status, !.devBefore = curDev,
                            !.devDuring = r.during, !.operation = op,
                            !.invoked = r.invoked, !.ran = r.ran,
                            !.valueBefore = v0, !.value = r.value]
    /\ rt' = NoRt
    /\ UNCHANGED <<devMem, hostMem, queue, failed, reported, aux>>

Next ==
    \/ \E c \in Devices : SetDevice(c)
    \/ \E e \in MemExecs, n \in AllocSizes : Alloc(e, n)
    \/ \E e \in MemExecs : \E p \in FreeArgs(e) : Free(e, p)
    \/ \E e \in MemExecs, from \in MemExecs : \E a \in CopyArgs(e, from) :
            CopyFrom(e, from, a[1], a[2], a[3])
    \/ \E e \in MemExecs : Synchronize(e)
    \/ \E e \in Executors : Run(e, "ExampleOperation", -1)

Spec == Init /\ [][Next]_vars

\* the fixture before its first call, on a quiet installation
Idle ==
    /\ curDev = 0
    /\ devMem = [d \in Devices |-> [i \in Slots |-> Unalloc]]
    /\ hostMem = [h \in HostBufs |-> IF h = OrigBuf THEN Data38 ELSE Zeros]
    /\ queue = [d \in Devices |-> <<>>]
    /\ failed = [d \in Devices |-> FALSE]
    /\ lastCall = NoCall
    /\ rt = NoRt
    /\ reported = {}

\* the caller asks an accelerator executor for the number of devices
GetDeviceCount(e) ==
    /\ e \in AccelExecs
    /\ \E r \in GpuExecutor_getDeviceCount(driver) :
          lastCall' = [NoCall EXCEPT !.op = "get_num_devices", !.exec = e,
                         !.status = r.status, !.code = r.code,
                         !.errcode = r.errcode, !.value = r.value,
                         !.devBefore = curDev, !.devDuring = curDev]
    /\ rt' = NoRt
    /\ UNCHANGED <<curDev, devMem, hostMem, queue, failed, reported, aux>>

InitQuery ==
    /\ Idle
    /\ ExtIs(NoExt)
    /\ driver \in DriverStates
    /\ timer = NoTimer
    /\ threads = NoThreads

\* a caller that queries the device count, on any installation
NextQuery == \E e \in AccelExecs : GetDeviceCount(e)

SpecQuery == InitQuery /\ [][NextQuery]_vars

\* everything but the timer and the record of the last call
TimerFrame ==
    UNCHANGED <<curDev, devMem, hostMem, queue, failed, rt, reported, driver,
                threads, ext>>

\* the caller enqueues a work item on the timed executor's stream
TimerEnqueue ==
    /\ Len(timer.stream) < MaxStream
    /\ timer.clock + Works(timer) < MaxClock
    /\ timer' = [timer EXCEPT !.stream = Append(@, "work")]
    /\ lastCall' = [NoCall EXCEPT !.op = "launch"]
    /\ TimerFrame

\* timer->record(time), once for each time point
TimerRecord(time) ==
    /\ Len(timer.stream) < MaxStream
    /\ timer[time] = "created"
    /\ LET r == CudaTimer_record(timer, time)
       IN /\ timer' = r.tm
          /\ lastCall' = [NoCall EXCEPT !.op = "record", !.status = r.status,
                                        !.code = r.code]
    /\ TimerFrame

\* the device executes the head of the timed stream
TimerDeviceStep ==
    /\ timer.stream # <<>>
    /\ timer' = Fire(timer)
    /\ lastCall' = [NoCall EXCEPT !.op = "device"]
    /\ TimerFrame

\* timer->difference(start, stop)
TimerDifference ==
    /\ LET r == CudaTimer_difference(timer, "start", "stop")
       IN /\ timer' = r.tm
          /\ lastCall' = [NoCall EXCEPT !.op = "difference",
                            !.status = r.status, !.code = r.code,
                            !.errcode = r.errcode, !.value = r.value,
                            !.calls = r.calls, !.pending = timer.stream]
    /\ TimerFrame

InitTimer ==
    /\ Idle
    /\ ExtIs(NoExt)
    /\ driver = NormalDriver
    /\ timer = NoTimer
    /\ threads = NoThreads

\* a caller timing work on an accelerator stream with two events
NextTimer ==
    \/ TimerEnqueue
    \/ \E time \in TimePoints : TimerRecord(time)
    \/ TimerDeviceStep
    \/ TimerDifference

SpecTimer == InitTimer /\ [][NextTimer]_vars

(***************************************************************************)
(* Two threads sharing one executor.  The runtime keeps a current device   *)
(* for each host thread; threads[t] holds it, the device the thread        *)
(* started with, the shared executor and the number of calls left.         *)
(***************************************************************************)
Threads == {1, 2}

ThreadCalls == {"alloc", "copy_from", "synchronize"}

\* what the call of a thread whose current device is cur returns
ThreadResults(call, cur, e) ==
    CASE call = "alloc" -> GpuExecutor_raw_alloc(World, cur, e, BufLen)
      [] call = "copy_from" ->
            {Executor_copy_from(World, cur, e, "omp", BufLen, HostPtr(OrigBuf),
                                DevPtr(get_device_id(e), 1)).r}
      [] OTHER -> {GpuExecutor_synchronize(World, cur, e)}

\* thread t issues alloc, copy_from or synchronize on the shared executor
ThreadCall(t, call) ==
    /\ threads[t].left > 0
    /\ \E r \in ThreadResults(call, threads[t].dev, threads[t].exec) :
        /\ SetWorld(r.w)
        /\ threads' = [threads EXCEPT ![t].dev = r.dev, ![t].left = @ - 1]
        /\ lastCall' = [NoCall EXCEPT !.op = call, !.exec = threads[t].exec,
                          !.status = r.status, !.code = r.code,
                          !.errcode = r.errcode,
                          !.devBefore = threads[t].dev,
                          !.devDuring = r.during, !.calls = r.calls]
        /\ reported' = Reported(threads[t].exec, r)
    /\ rt' = NoRt
    /\ UNCHANGED <<curDev, driver, timer, ext>>

\* thread t runs ExampleOperation on the shared executor
ThreadRun(t) ==
    /\ threads[t].left > 0
    /\ LET r == Executor_run(threads[t].dev, threads[t].exec,
                             "ExampleOperation", -1)
       IN /\ threads' = [threads EXCEPT ![t].dev = r.dev, ![t].left = @ - 1]
          /\ lastCall' = [NoCall EXCEPT !.op = "run", !.exec = threads[t].exec,
                            !.status = r.status,
                            !.devBefore = threads[t].dev,
                            !.devDuring = r.during,
                            !.operation = "ExampleOperation",
                            !.invoked = r.invoked, !.ran = r.ran,
                            !.value = r.value]
    /\ rt' = NoRt
    /\ UNCHANGED <<curDev, devMem, hostMem, queue, failed, reported, driver,
                   timer, ext>>

InitThreads ==
    /\ Idle
    /\ ExtIs(NoExt)
    /\ driver = NormalDriver
    /\ timer = NoTimer
    /\ \E e \in AccelExecs \cap MemExecs :
          threads \in [Threads -> {[dev |-> d, start |-> d, exec |-> e,
                                    left |-> MaxCalls] : d \in Devices}]

NextThreads ==
    \/ \E t \in Threads, call \in ThreadCalls : ThreadCall(t, call)
    \/ \E t \in Threads : ThreadRun(t)

SpecThreads == InitThreads /\ [][NextThreads]_vars

\* a caller that only runs operations, of every kind, on every executor
NextRun ==
    \/ \E c \in Devices : SetDevice(c)
    \/ \E e \in Executors, op \in Operations, v0 \in InitialValues :
            Run(e, op, v0)

SpecRun == Init /\ [][NextRun]_vars

\* the buffers of the tests that launch kernels: the host arrays and the
\* first buffer of the executor's device
StreamPtrs(e) ==
    IF e \in CpuExecs THEN HostPtrs ELSE {DevPtr(get_device_id(e), 1)}

\* the same caller, now also launching kernels that run asynchronously
NextStream ==
    \/ \E c \in Devices : SetDevice(c)
    \/ \E k \in Kernels, d \in Devices : Launch(k, DevPtr(d, 1))
    \/ \E d \in Devices : DeviceStep(d)
    \/ \E e \in AccelExecs \cap MemExecs :
            /\ devMem[curDev][1] = Unalloc
            /\ Alloc(e, BufLen)
    \/ \E e \in AccelExecs \cap MemExecs : Free(e, DevPtr(get_device_id(e), 1))
    \/ \E e \in MemExecs, from \in MemExecs :
         \E sp \in StreamPtrs(from) \ {HostPtr(CopyBuf)}, dp \in StreamPtrs(e) :
            /\ e \in CpuExecs \/ from \in CpuExecs
            /\ dp # HostPtr(OrigBuf)
            /\ CopyFrom(e, from, BufLen, sp, dp)
    \/ \E e \in MemExecs : Synchronize(e)

SpecStream == Init /\ [][NextStream]_vars

TypeOK ==
    /\ curDev \in Devices
    /\ \A d \in Devices : Len(queue[d]) <= MaxQueue

(***************************************************************************)
(* Executor lifecycle.  life.ex[i] is an executor instance: absent, live   *)
(* or destroyed, with the device it is bound to, the number of handles     *)
(* (shared pointers) the program holds and the number of objects that      *)
(* allocate through it, each keeping a handle of its own.                  *)
(* life.num_execs[d] counts the executors alive on device d, life.valid[d] *)
(* tells that the device has not been reset under them.                    *)
(***************************************************************************)
\* the executor layer below the library objects
Below ==
    UNCHANGED <<curDev, devMem, hostMem, queue, failed, lastCall, rt,
                reported, driver, timer, threads>>

ExecIds == 1 .. MaxExecs

NoExec == [state |-> "absent", dev |-> 0, handles |-> 0, objects |-> 0]

NoLife ==
    [ex |-> [i \in ExecIds |-> NoExec],
     num_execs |-> [d \in Devices |-> 0],
     valid |-> [d \in Devices |-> TRUE],
     error |-> "none"]

use_count(x) == x.handles + x.objects

\* HipExecutor::create(device_id, master): the instance and its first handle
HipExecutor_create(l, i, d) ==
    [l EXCEPT !.ex[i] = [state |-> "live", dev |-> d, handles |-> 1,
                         objects |-> 0],
              !.num_execs[d] = @ + 1,
              !.valid[d] = TRUE]

\* teardown that resets the device although other executors still use it
HipExecutor_destroy_resetting(l, i) ==
    [l EXCEPT !.ex[i].state = "destroyed",
              !.num_execs[l.ex[i].dev] = @ - 1,
              !.valid[l.ex[i].dev] = FALSE]

\* the executor's teardown: the device is reset with its last executor only
HipExecutor_destroy(l, i) ==
    [l EXCEPT !.ex[i].state = "destroyed",
              !.num_execs[l.ex[i].dev] = @ - 1,
              !.valid[l.ex[i].dev] = l.num_execs[l.ex[i].dev] > 1]

\* a handle or an object of executor i is gone: the last one tears it down
Released(l, i) == IF use_count(l.ex[i]) = 0 THEN HipExecutor_destroy(l, i) ELSE l

LifeFrame == Below /\ UNCHANGED <<sel, mg, bicg, red, fb, gm, mpi>>

LifeCreate(i, d) ==
    /\ life.ex[i].state # "live"
    /\ life' = HipExecutor_create(life, i, d)
    /\ LifeFrame

\* the program copies a handle of executor i
LifeCopyHandle(i) ==
    /\ life.ex[i].state = "live"
    /\ life.ex[i].handles \in 1 .. (MaxRefs - 1)
    /\ life' = [life EXCEPT !.ex[i].handles = @ + 1]
    /\ LifeFrame

\* the program drops a handle of executor i
LifeReleaseHandle(i) ==
    /\ life.ex[i].state = "live"
    /\ life.ex[i].handles > 0
    /\ life' = Released([life EXCEPT !.ex[i].handles = @ - 1], i)
    /\ LifeFrame

\* an object allocates through executor i and keeps a handle to it
LifeAllocObject(i) ==
    /\ life.ex[i].state = "live"
    /\ life.ex[i].handles > 0
    /\ life.ex[i].objects < MaxRefs
    /\ life' = [life EXCEPT !.ex[i].objects = @ + 1]
    /\ LifeFrame

\* an object of executor i frees its memory and drops its handle
LifeFreeObject(i) ==
    /\ life.ex[i].state = "live"
    /\ life.ex[i].objects > 0
    /\ life' = Released([life EXCEPT !.ex[i].objects = @ - 1], i)
    /\ LifeFrame

InitLife ==
    /\ Idle
    /\ driver = NormalDriver
    /\ timer = NoTimer
    /\ threads = NoThreads
    /\ ExtIs([NoExt EXCEPT !.life = NoLife])

NextLife ==
    \/ \E i \in ExecIds, d \in Devices : LifeCreate(i, d)
    \/ \E i \in ExecIds : LifeCopyHandle(i)
    \/ \E i \in ExecIds : LifeReleaseHandle(i)
    \/ \E i \in ExecIds : LifeAllocObject(i)
    \/ \E i \in ExecIds : LifeFreeObject(i)

SpecLife == InitLife /\ [][NextLife]_vars

(***************************************************************************)
(* The timer factory of the benchmarks                                     *)
(***************************************************************************)
\* std::dynamic_pointer_cast<const XExecutor>(exec) yields a non-null pointer
dynamic_pointer_cast(exec, k) == exec # "null" /\ kind(exec) = k

\* get_cuda_timer / get_hip_timer: the event timer of the backend
get_cuda_timer(cuda) == "CudaTimer"

get_hip_timer(hip) == "HipTimer"

\* get_timer that hands out the event timer whatever the flag says
get_timer_ignoring_flag(exec, use_gpu_timer, HAS_CUDA, HAS_HIP) ==
    IF HAS_CUDA /\ dynamic_pointer_cast(exec, "cuda")
        THEN get_cuda_timer(exec)
    ELSE IF HAS_HIP /\ dynamic_pointer_cast(exec, "hip")
        THEN get_hip_timer(exec)
    ELSE "CpuTimer"

\* get_timer(exec, use_gpu_timer) in a build with or without CUDA and HIP
get_timer(exec, use_gpu_timer, HAS_CUDA, HAS_HIP) ==
    IF use_gpu_timer /\ HAS_CUDA /\ dynamic_pointer_cast(exec, "cuda")
        THEN get_cuda_timer(exec)
    ELSE IF use_gpu_timer /\ HAS_HIP /\ dynamic_pointer_cast(exec, "hip")
        THEN get_hip_timer(exec)
    ELSE "CpuTimer"

EventTimers == {"CudaTimer", "HipTimer"}

TimerRequests ==
    [exec : Executors \cup {"null"}, use_gpu_timer : BOOLEAN,
     HAS_CUDA : BOOLEAN, HAS_HIP : BOOLEAN, timer : {"pending"}]

SelFrame == Below /\ UNCHANGED <<life, mg, bicg, red, fb, gm, mpi>>

GetTimer ==
    /\ sel.timer = "pending"
    /\ sel' = [sel EXCEPT !.timer = get_timer(sel.exec, sel.use_gpu_timer,
                                               sel.HAS_CUDA, sel.HAS_HIP)]
    /\ SelFrame

InitSel ==
    /\ Idle
    /\ driver = NormalDriver
    /\ timer = NoTimer
    /\ threads = NoThreads
    /\ \E q \in TimerRequests : ExtIs([NoExt EXCEPT !.sel = q])

NextSel == GetTimer

SpecSel == InitSel /\ [][NextSel]_vars

(***************************************************************************)
(* solver::Multigrid: construction from the factory parameters             *)
(***************************************************************************)
MaxMgLevels == 2

MaxSmoothers == 2

MaxLevels == 3

MaxSolvers == 2

\* std::vector<std::shared_ptr<const LinOpFactory>> of non-null factories
FactoryLists(n) == {[i \in 1..k |-> "factory"] : k \in 0..n}

\* the mg_level list, whose entries may be nullptr
MgLevelLists ==
    UNION {[1..k -> {"factory", "nullptr"}] : k \in 0..MaxMgLevels}

\* the parameters' defaults (GKO_FACTORY_PARAMETER_*), max_levels within bound
MgDefaults ==
    [mg_level |-> <<>>, mg_level_index |-> "nullptr", pre_smoother |-> <<>>,
     post_smoother |-> <<>>, mid_smoother |-> <<>>, post_uses_pre |-> TRUE,
     mid_case |-> "pre", max_levels |-> MaxLevels, coarsest_solver |-> <<>>,
     solver_index |-> "nullptr", square |-> TRUE]

\* factories that set the smoother lists and the flags guarding their checks
SmootherParams ==
    {[MgDefaults EXCEPT !.mg_level = g, !.pre_smoother = a,
                        !.post_smoother = b, !.mid_smoother = c,
                        !.post_uses_pre = u, !.mid_case = w, !.square = q] :
        g \in MgLevelLists, a \in FactoryLists(MaxSmoothers),
        b \in FactoryLists(MaxSmoothers), c \in FactoryLists(MaxSmoothers),
        u \in BOOLEAN, w \in {"pre", "mid", "post"}, q \in BOOLEAN}

\* factories that set the level lists, max_levels and the selectors
SelectorParams ==
    {[MgDefaults EXCEPT !.mg_level = g, !.mg_level_index = f,
                        !.max_levels = n, !.coarsest_solver = s,
                        !.solver_index = h] :
        g \in MgLevelLists, f \in {"nullptr", "custom"}, n \in 0..MaxLevels,
        s \in FactoryLists(MaxSolvers), h \in {"nullptr", "custom"}}

\* verify_legal_length that checks the list whatever the flag says
verify_legal_length_always(checked, len, ref_len) ==
    len > 1 /\ len # ref_len

\* verify_legal_length(checked, len, ref_len): TRUE when it raises
verify_legal_length(checked, len, ref_len) ==
    checked /\ len > 1 /\ len # ref_len

\* the selector the constructor installs as mg_level_index_
install_mg_level_index(p) ==
    IF p.mg_level_index = "nullptr"
        THEN IF Len(p.mg_level) = 1 THEN "zero"
             ELSE IF Len(p.mg_level) > 1 THEN "level"
             ELSE "empty"
        ELSE p.mg_level_index

\* the selector the constructor installs as solver_index_
install_solver_index(p) ==
    IF p.solver_index = "nullptr"
        THEN IF Len(p.coarsest_solver) >= 1 THEN "zero" ELSE "empty"
        ELSE p.solver_index

\* Multigrid(const Factory *, system_matrix): the exception it leaves with,
\* or "ok"
Multigrid_status(p) ==
    IF ~p.square THEN "DimensionMismatch"
    ELSE IF Len(p.mg_level) = 0 THEN "NotSupported"
    ELSE IF \E i \in 1..Len(p.mg_level) : p.mg_level[i] = "nullptr"
        THEN "NotSupported"
    ELSE IF verify_legal_length(TRUE, Len(p.pre_smoother), Len(p.mg_level))
        THEN "NotSupported"
    ELSE IF verify_legal_length(~p.post_uses_pre, Len(p.post_smoother),
                                Len(p.mg_level))
        THEN "NotSupported"
    ELSE IF verify_legal_length(p.mid_case = "mid", Len(p.mid_smoother),
                                Len(p.mg_level))
        THEN "NotSupported"
    ELSE "ok"

\* the indices a call of an installed selector may return for a level
call_selector(f, level) ==
    IF f = "zero" THEN {0}
    ELSE IF f = "level" THEN {level}
    ELSE 0..MaxLevels

NoSelection == [list |-> "none", level |-> 0, index |-> 0]

MgFrame == Below /\ UNCHANGED <<life, sel, bicg, red, fb, gm, mpi>>

\* factory->generate(system_matrix)
MgConstruct ==
    /\ mg.status = "unbuilt"
    /\ mg' = [mg EXCEPT !.status = Multigrid_status(mg.params),
                        !.mg_level_index_ = install_mg_level_index(mg.params),
                        !.solver_index_ = install_solver_index(mg.params)]
    /\ MgFrame

\* mg_level_index_(level, matrix) of a constructed solver
MgSelectLevel(level) ==
    /\ mg.status = "ok"
    /\ mg.mg_level_index_ # "empty"
    /\ level < mg.params.max_levels
    /\ \E i \in call_selector(mg.mg_level_index_, level) :
         mg' = [mg EXCEPT !.selection =
                    [list |-> "mg_level", level |-> level, index |-> i]]
    /\ MgFrame

\* solver_index_(level, matrix) of a constructed solver
MgSelectSolver(level) ==
    /\ mg.status = "ok"
    /\ mg.solver_index_ # "empty"
    /\ level <= mg.params.max_levels
    /\ \E i \in call_selector(mg.solver_index_, level) :
         mg' = [mg EXCEPT !.selection =
                    [list |-> "coarsest_solver", level |-> level, index |-> i]]
    /\ MgFrame

InitMg ==
    /\ Idle
    /\ driver = NormalDriver
    /\ timer = NoTimer
    /\ threads = NoThreads
    /\ \E p \in SmootherParams \cup SelectorParams :
         ExtIs([NoExt EXCEPT !.mg =
                   [params |-> p, status |-> "unbuilt",
                    mg_level_index_ |-> "empty", solver_index_ |-> "empty",
                    selection |-> NoSelection]])

NextMg ==
    \/ MgConstruct
    \/ \E level \in 0..MaxLevels : MgSelectLevel(level)
    \/ \E level \in 0..MaxLevels : MgSelectSolver(level)

SpecMg == InitMg /\ [][NextMg]_vars

(***************************************************************************)
(* batch::solver::Bicgstab: factory parameters and the solver's settings   *)
(***************************************************************************)
\* iteration counts the tests use (10, 22, def_max_iters = 100)
IterationCounts == {10, 22, 100}

\* residual tolerances in hundredths (0.25, 0.5)
ResidualTols == {25, 50}

ToleranceTypes == {"absolute", "relative"}

\* Solver::build().with_default_max_iterations(..)
\*     .with_default_residual_tol(..).with_tolerance_type(..).on(exec)
BicgstabFactories ==
    [default_max_iterations : IterationCounts,
     default_residual_tol : ResidualTols,
     tolerance_type : ToleranceTypes]

\* solver_factory->generate(mtx): the solver keeps the factory's parameters
\* and starts from their defaults
Bicgstab_generate(factory) ==
    [parameters_ |-> factory,
     max_iterations_ |-> factory.default_max_iterations,
     residual_tol_ |-> factory.default_residual_tol]

\* set_residual_tolerance that overwrites the factory parameter as well
set_residual_tolerance_in_parameters(solver, res_tol) ==
    [solver EXCEPT !.residual_tol_ = res_tol,
                   !.parameters_.default_residual_tol = res_tol]

\* solver->set_residual_tolerance(res_tol)
set_residual_tolerance(solver, res_tol) ==
    [solver EXCEPT !.residual_tol_ = res_tol]

\* solver->set_max_iterations(max_iterations)
set_max_iterations(solver, max_iterations) ==
    [solver EXCEPT !.max_iterations_ = max_iterations]

get_residual_tolerance(solver) == solver.residual_tol_

get_max_iterations(solver) == solver.max_iterations_

get_parameters(solver) == solver.parameters_

NoSolver == [parameters_ |-> Absent, max_iterations_ |-> 0, residual_tol_ |-> 0]

BicgFrame == Below /\ UNCHANGED <<life, sel, mg, red, fb, gm, mpi>>

BicgGenerate ==
    /\ bicg.last = "build"
    /\ bicg' = [bicg EXCEPT !.solver = Bicgstab_generate(bicg.factory),
                            !.last = "generate"]
    /\ BicgFrame

BicgSetResidualTol(res_tol) ==
    /\ bicg.last # "build"
    /\ bicg' = [bicg EXCEPT
                   !.solver = set_residual_tolerance(bicg.solver, res_tol),
                   !.last = "set_residual_tolerance", !.arg = res_tol]
    /\ BicgFrame

BicgSetMaxIterations(max_iterations) ==
    /\ bicg.last # "build"
    /\ bicg' = [bicg EXCEPT
                   !.solver = set_max_iterations(bicg.solver, max_iterations),
                   !.last = "set_max_iterations", !.arg = max_iterations]
    /\ BicgFrame

InitBicg ==
    /\ Idle
    /\ driver = NormalDriver
    /\ timer = NoTimer
    /\ threads = NoThreads
    /\ \E f \in BicgstabFactories :
         ExtIs([NoExt EXCEPT !.bicg =
                   [factory |-> f, solver |-> NoSolver, last |-> "build",
                    arg |-> 0]])

NextBicg ==
    \/ BicgGenerate
    \/ \E res_tol \in ResidualTols : BicgSetResidualTol(res_tol)
    \/ \E max_iterations \in IterationCounts :
         BicgSetMaxIterations(max_iterations)

SpecBicg == InitBicg /\ [][NextBicg]_vars

(***************************************************************************)
(* kernels::omp::run_kernel_reduction                                      *)
(***************************************************************************)
MaxSize == 4

MaxRows == 2

MaxCols == 3

MaxOmpThreads == 3

\* the number of indices of a 1D size or a dim<2>
num_indices(size) == IF Len(size) = 1 THEN size[1] ELSE size[1] * size[2]

\* the kernel functions of the tests: i + 1 and (i + 1) * (j + 1), the 2D
\* index taken from the flat one in row-major order
kernel_fn(size, idx) ==
    IF Len(size) = 1 THEN idx + 1
    ELSE ((idx \div size[2]) + 1) * ((idx % size[2]) + 1)

\* the reduction operator of the tests
reduction_op(i, j) == i + j

\* the finalize functions of the tests: j * 2 (1D) and j * 4 (2D)
finalize(size, j) == IF Len(size) = 1 THEN j * 2 ELSE j * 4

\* int64{}
identity == 0

ceildiv(a, b) == (a + b - 1) \div b

\* a share of the indices that is rounded down
work_per_thread_rounded_down(ssize, num_threads) == ssize \div num_threads

\* the share of the indices each thread works on
work_per_thread(ssize, num_threads) == ceildiv(ssize, num_threads)

thread_begin(size, num_threads, thread_id) ==
    thread_id * work_per_thread(num_indices(size), num_threads)

thread_end(size, num_threads, thread_id) ==
    LET e == thread_begin(size, num_threads, thread_id)
                 + work_per_thread(num_indices(size), num_threads)
    IN  IF e < num_indices(size) THEN e ELSE num_indices(size)

\* local_partial = op(local_partial, fn(i, args...)) for i in [begin, end)
RECURSIVE local_partial(_, _, _, _)
local_partial(size, begin, end, acc) ==
    IF begin >= end THEN acc
    ELSE local_partial(size, begin + 1, end,
                       reduction_op(acc, kernel_fn(size, begin)))

\* the fold of the per-thread partial results, in thread order
RECURSIVE accumulate(_, _, _, _)
accumulate(partial, thread_id, num_threads, acc) ==
    IF thread_id >= num_threads THEN acc
    ELSE accumulate(partial, thread_id + 1, num_threads,
                    reduction_op(acc, partial[thread_id]))

\* the sizes the reductions are run over
ReductionSizes ==
    {<<n>> : n \in 0..MaxSize}
        \cup {<<r, c>> : r \in 0..MaxRows, c \in 0..MaxCols}

RedFrame == Below /\ UNCHANGED <<life, sel, mg, bicg, fb, gm, mpi>>

\* one thread of the parallel region reduces its share
RedThread(thread_id) ==
    /\ thread_id < red.num_threads
    /\ thread_id \notin red.joined
    /\ LET b == thread_begin(red.size, red.num_threads, thread_id)
           e == thread_end(red.size, red.num_threads, thread_id)
       IN  red' = [red EXCEPT
                      !.partial[thread_id] =
                          local_partial(red.size, b, e, identity),
                      !.joined = red.joined \cup {thread_id},
                      !.visits = [i \in DOMAIN red.visits |->
                                     IF b <= i /\ i < e
                                         THEN red.visits[i] + 1
                                         ELSE red.visits[i]]]
    /\ RedFrame

\* after the parallel region: *result = finalize(fold of the partials)
RedFinalize ==
    /\ ~red.returned
    /\ red.joined = 0..(red.num_threads - 1)
    /\ red' = [red EXCEPT !.returned = TRUE,
                          !.result =
                  finalize(red.size, accumulate(red.partial, 0,
                                                red.num_threads, identity))]
    /\ RedFrame

InitRed ==
    /\ Idle
    /\ driver = NormalDriver
    /\ timer = NoTimer
    /\ threads = NoThreads
    /\ \E size \in ReductionSizes, num_threads \in 1..MaxOmpThreads :
         ExtIs([NoExt EXCEPT !.red =
                   [size |-> size, num_threads |-> num_threads,
                    partial |-> [t \in 0..(num_threads - 1) |-> identity],
                    joined |-> {},
                    visits |-> [i \in 0..(num_indices(size) - 1) |-> 0],
                    returned |-> FALSE, result |-> identity]])

NextRed ==
    \/ \E thread_id \in 0..(MaxOmpThreads - 1) : RedThread(thread_id)
    \/ RedFinalize

SpecRed == InitRed /\ [][NextRed]_vars

(***************************************************************************)
(* matrix::Fbcsr: sort_by_column_index and is_sorted_by_column_index       *)
(***************************************************************************)
NumBrows == 2

NumBcols == 3

\* the block-column sequences of one block row: distinct columns, any order
BlockRows ==
    {s \in UNION {[1..k -> 0..(NumBcols - 1)] : k \in 0..NumBcols} :
        \A i \in DOMAIN s, j \in DOMAIN s : i # j => s[i] # s[j]}

RECURSIVE Concat(_)
Concat(rows) ==
    IF rows = <<>> THEN <<>> ELSE Head(rows) \o Concat(Tail(rows))

RECURSIVE RowPtrs(_, _)
RowPtrs(rows, start) ==
    IF rows = <<>> THEN <<start>>
    ELSE <<start>> \o RowPtrs(Tail(rows), start + Len(Head(rows)))

\* the Fbcsr arrays of a matrix with the given block rows; block k of the
\* value array is named by its position
FbcsrOf(rows) ==
    [row_ptrs |-> RowPtrs(rows, 0), col_idxs |-> Concat(rows),
     values |-> [k \in 1..Len(Concat(rows)) |-> k]]

\* generate_random_fbcsr(..., unsort, ...)
FbcsrMatrices == {FbcsrOf(rows) : rows \in [1..NumBrows -> BlockRows]}

\* the positions of block row brow in col_idxs and values
RowRange(mat, brow) == (mat.row_ptrs[brow] + 1)..mat.row_ptrs[brow + 1]

\* the permutation that brings the entries of a block row into ascending
\* column order: the entry at position k moves to the place found by
\* counting the entries of its row that precede it in the order
SortedPlace(mat, brow, k) ==
    mat.row_ptrs[brow] +
        Cardinality({j \in RowRange(mat, brow) :
            \/ mat.col_idxs[j] < mat.col_idxs[k]
            \/ mat.col_idxs[j] = mat.col_idxs[k] /\ j <= k})

\* sorting one block row: column indices and blocks are permuted together
sort_block_row(mat, brow) ==
    [mat EXCEPT
        !.col_idxs =
            [p \in DOMAIN mat.col_idxs |->
                IF p \in RowRange(mat, brow)
                    THEN mat.col_idxs[CHOOSE k \in RowRange(mat, brow) :
                                          SortedPlace(mat, brow, k) = p]
                    ELSE mat.col_idxs[p]],
        !.values =
            [p \in DOMAIN mat.values |->
                IF p \in RowRange(mat, brow)
                    THEN mat.values[CHOOSE k \in RowRange(mat, brow) :
                                        SortedPlace(mat, brow, k) = p]
                    ELSE mat.values[p]]]

\* reference sort_by_column_index: the block rows one after the other
RECURSIVE reference_sort_by_column_index(_, _)
reference_sort_by_column_index(mat, brow) ==
    IF brow > NumBrows THEN mat
    ELSE reference_sort_by_column_index(sort_block_row(mat, brow), brow + 1)

\* is_sorted_by_column_index that looks at the first block row only
is_sorted_in_first_block_row(mat) ==
    \A p \in RowRange(mat, 1) :
        (p + 1) \in RowRange(mat, 1) =>
            mat.col_idxs[p] <= mat.col_idxs[p + 1]

\* is_sorted_by_column_index: no entry of a block row has a larger column
\* index than its successor
is_sorted_by_column_index(mat) ==
    \A brow \in 1..NumBrows :
        \A p \in RowRange(mat, brow) :
            (p + 1) \in RowRange(mat, brow) =>
                mat.col_idxs[p] <= mat.col_idxs[p + 1]

\* std::swap(colinds[0], colinds[1])
swap_first_two(mat) ==
    [mat EXCEPT !.col_idxs[1] = mat.col_idxs[2],
                !.col_idxs[2] = mat.col_idxs[1]]

FbFrame == Below /\ UNCHANGED <<life, sel, mg, bicg, red, gm, mpi>>

\* std::swap(colinds[0], colinds[1]); unsrt->copy_from(mat)
FbSwap ==
    /\ fb.step = "generated"
    /\ Len(fb.ref.col_idxs) >= 2
    /\ fb' = [fb EXCEPT !.ref = swap_first_two(fb.ref),
                        !.omp = swap_first_two(fb.ref), !.step = "copied"]
    /\ FbFrame

\* local_mtx_omp->copy_from(local_mtx_ref.get())
FbCopy ==
    /\ fb.step = "generated"
    /\ fb' = [fb EXCEPT !.omp = fb.ref, !.step = "copied"]
    /\ FbFrame

\* uns_mtx.omp->is_sorted_by_column_index() before any sort
FbRecognize ==
    /\ fb.step = "copied"
    /\ fb' = [fb EXCEPT !.step = "recognized",
                        !.is_sorted = is_sorted_by_column_index(fb.omp)]
    /\ FbFrame

\* uns_mtx.ref->sort_by_column_index()
FbSortRef ==
    /\ fb.step = "copied"
    /\ ~fb.ref_sorted
    /\ fb' = [fb EXCEPT !.ref = reference_sort_by_column_index(fb.ref, 1),
                        !.ref_sorted = TRUE]
    /\ FbFrame

\* uns_mtx.omp->sort_by_column_index(): the iteration of the parallel loop
\* for one block row
FbSortOmpRow(brow) ==
    /\ fb.step = "copied"
    /\ brow \notin fb.omp_rows
    /\ fb' = [fb EXCEPT !.omp = sort_block_row(fb.omp, brow),
                        !.omp_rows = fb.omp_rows \cup {brow}]
    /\ FbFrame

\* uns_mtx.omp->is_sorted_by_column_index() after both sorts
FbCheckSorted ==
    /\ fb.step = "copied"
    /\ fb.ref_sorted
    /\ fb.omp_rows = 1..NumBrows
    /\ fb' = [fb EXCEPT !.step = "sorted",
                        !.is_sorted = is_sorted_by_column_index(fb.omp)]
    /\ FbFrame

InitFb ==
    /\ Idle
    /\ driver = NormalDriver
    /\ timer = NoTimer
    /\ threads = NoThreads
    /\ \E mat \in FbcsrMatrices :
         ExtIs([NoExt EXCEPT !.fb =
                   [ref |-> mat, omp |-> FbcsrOf([r \in 1..NumBrows |-> <<>>]),
                    step |-> "generated", ref_sorted |-> FALSE,
                    omp_rows |-> {}, is_sorted |-> FALSE]])

NextFb ==
    \/ FbSwap
    \/ FbCopy
    \/ FbRecognize
    \/ FbSortRef
    \/ \E brow \in 1..NumBrows : FbSortOmpRow(brow)
    \/ FbCheckSorted

SpecFb == InitFb /\ [][NextFb]_vars

(***************************************************************************)
(* solver::Gmres: the Krylov dimension                                     *)
(***************************************************************************)
MaxKrylovDim == 10

default_krylov_dim == 100

\* the Krylov dimensions given to factories and setters
KrylovDims == 0..MaxKrylovDim \cup {default_krylov_dim}

\* Gmres(const Factory *, system_matrix)
Gmres_generate(factory) ==
    [parameters_ |->
        IF factory.krylov_dim = 0
            THEN [factory EXCEPT !.krylov_dim = default_krylov_dim]
            ELSE factory]

\* get_krylov_dim that substitutes the default whenever the stored value is 0
get_krylov_dim_substituting(solver) ==
    IF solver.parameters_.krylov_dim = 0 THEN default_krylov_dim
    ELSE solver.parameters_.krylov_dim

\* solver->get_krylov_dim()
get_krylov_dim(solver) == solver.parameters_.krylov_dim

\* solver->set_krylov_dim(other)
set_krylov_dim(solver, other) ==
    [solver EXCEPT !.parameters_.krylov_dim = other]

GmFrame == Below /\ UNCHANGED <<life, sel, mg, bicg, red, fb, mpi>>

\* factory->generate(system_matrix)
GmGenerate ==
    /\ gm.last = "build"
    /\ gm' = [gm EXCEPT !.solver = Gmres_generate(gm.factory),
                        !.last = "generate"]
    /\ GmFrame

\* solver->set_krylov_dim(other)
GmSetKrylovDim(other) ==
    /\ gm.last # "build"
    /\ gm' = [gm EXCEPT !.solver = set_krylov_dim(gm.solver, other),
                        !.last = "set_krylov_dim", !.arg = other]
    /\ GmFrame

InitGm ==
    /\ Idle
    /\ driver = NormalDriver
    /\ timer = NoTimer
    /\ threads = NoThreads
    /\ \E k \in KrylovDims :
         ExtIs([NoExt EXCEPT !.gm =
                   [factory |-> [krylov_dim |-> k],
                    solver |-> [parameters_ |-> [krylov_dim |-> 0]],
                    last |-> "build", arg |-> 0]])

NextGm ==
    \/ GmGenerate
    \/ \E other \in KrylovDims : GmSetKrylovDim(other)

SpecGm == InitGm /\ [][NextGm]_vars

(***************************************************************************)
(* mpi::request and mpi::status: the arrays they own                       *)
(***************************************************************************)
MaxObjects == 3

MaxArrays == 2

MpiObjects == 1..MaxObjects

MpiArrays == 1..MaxArrays

NoObject == [state |-> "none", ptr |-> 0]

\* the arrays new[] has not handed out yet
FreshArrays(m) == {a \in MpiArrays : ~m.allocated[a]}

\* request() : req_(new MPI_Request[1]) / status() : status_(new MPI_Status[1])
mpi_construct(m, o, a) ==
    [m EXCEPT !.obj[o] = [state |-> "live", ptr |-> a],
              !.allocated[a] = TRUE]

\* the implicit copy constructor: the pointer member is copied
mpi_copy_construct(m, o, src) ==
    [m EXCEPT !.obj[o] = [state |-> "live", ptr |-> m.obj[src].ptr]]

\* the implicit copy assignment: the pointer member is overwritten
mpi_copy_assign(m, dst, src) ==
    [m EXCEPT !.obj[dst].ptr = m.obj[src].ptr]

\* ~request() / ~status(): if (req_) delete[] req_; deleting an array a
\* second time is undefined and may or may not bring the process down
mpi_destroy(m, o) ==
    LET a == m.obj[o].ptr
        d == [m EXCEPT !.obj[o].state = "destroyed"]
    IN  IF a = 0 THEN {d}
        ELSE IF m.released[a] = 0
            THEN {[d EXCEPT !.released[a] = 1]}
        ELSE {[d EXCEPT !.released[a] = m.released[a] + 1, !.heap = h] :
                 h \in {"ok", "corrupted"}}

MpiFrame == Below /\ UNCHANGED <<life, sel, mg, bicg, red, fb, gm>>

MpiConstruct(o) ==
    /\ mpi.heap = "ok"
    /\ mpi.obj[o].state = "none"
    /\ \E a \in FreshArrays(mpi) : mpi' = mpi_construct(mpi, o, a)
    /\ MpiFrame

MpiCopyConstruct(o, src) ==
    /\ mpi.heap = "ok"
    /\ mpi.obj[o].state = "none"
    /\ mpi.obj[src].state = "live"
    /\ mpi' = mpi_copy_construct(mpi, o, src)
    /\ MpiFrame

MpiCopyAssign(dst, src) ==
    /\ mpi.heap = "ok"
    /\ dst # src
    /\ mpi.obj[dst].state = "live"
    /\ mpi.obj[src].state = "live"
    /\ mpi' = mpi_copy_assign(mpi, dst, src)
    /\ MpiFrame

MpiDestroy(o) ==
    /\ mpi.heap = "ok"
    /\ mpi.obj[o].state = "live"
    /\ mpi' \in mpi_destroy(mpi, o)
    /\ MpiFrame

InitMpi ==
    /\ Idle
    /\ driver = NormalDriver
    /\ timer = NoTimer
    /\ threads = NoThreads
    /\ \E c \in {"request", "status"} :
         ExtIs([NoExt EXCEPT !.mpi =
                   [class |-> c, obj |-> [o \in MpiObjects |-> NoObject],
                    allocated |-> [a \in MpiArrays |-> FALSE],
                    released |-> [a \in MpiArrays |-> 0], heap |-> "ok"]])

NextMpi ==
    \/ \E o \in MpiObjects : MpiConstruct(o)
    \/ \E o \in MpiObjects, src \in MpiObjects : MpiCopyConstruct(o, src)
    \/ \E dst \in MpiObjects, src \in MpiObjects : MpiCopyAssign(dst, src)
    \/ \E o \in MpiObjects : MpiDestroy(o)

SpecMpi == InitMpi /\ [][NextMpi]_vars

(***************************************************************************)
(* Properties                                                              *)
(***************************************************************************)
PublicOps == {"alloc", "free", "copy_from", "run", "synchronize"}

\* C1: when the backend allocation call reports a failure, alloc raises
\* AllocationError; it never returns normally after a failed allocation.
C1_AllocFailureRaises ==
    (lastCall.op = "alloc" /\ lastCall.code # "cudaSuccess")
        => lastCall.status = "AllocationError"

\* C2: every public method of an accelerator executor does its backend work
\* while the current device is the device the executor is bound to.
C2_WorkOnBoundDevice ==
    (lastCall.op \in PublicOps /\ lastCall.exec \in AccelExecs)
        => lastCall.devDuring = get_device_id(lastCall.exec)

\* C3: after a public method of an executor has returned, normally or by
\* raising, the current device is the one it was before the call.
C3_DevicePreserved ==
    lastCall.op \in PublicOps => curDev = lastCall.devBefore

C3_Witness ==
    /\ lastCall.op = "alloc"
    /\ lastCall.status = "AllocationError"
    /\ lastCall.devBefore # get_device_id(lastCall.exec)
    /\ curDev = lastCall.devBefore

\* C4: run(op) enters exactly one entry point of op, the one of the
\* executor's own kind, exactly once, and the side effect observed is that
\* override's: ExampleOperation leaves -1 (omp), -2 (reference), -3 (cuda),
\* -4 (dpcpp) or the executor's device id (hip) in value.
C4_RunDispatch ==
    lastCall.op = "run" =>
        /\ lastCall.invoked = <<kind(lastCall.exec)>>
        /\ \A i \in DOMAIN lastCall.ran : lastCall.ran[i] = kind(lastCall.exec)
        /\ lastCall.operation = "ExampleOperation" =>
             /\ lastCall.status = "ok"
             /\ lastCall.value =
                  CASE lastCall.exec = "omp" -> -1
                    [] lastCall.exec = "ref" -> -2
                    [] lastCall.exec = "cuda" -> -3
                    [] lastCall.exec = "dpcpp" -> -4
                    [] OTHER -> get_device_id(lastCall.exec)

C4_Witness ==
    /\ lastCall.op = "run"
    /\ lastCall.exec = "hip2"
    /\ lastCall.operation = "ExampleOperation"
    /\ lastCall.devBefore # get_device_id("hip2")
    /\ lastCall.value = get_device_id("hip2")

\* C5: an operation (or a kernel of a module that was not built) without an
\* implementation for the executor's kind fails with NotSupported; no body of
\* another backend runs and the captured output keeps its value.
C5_NoImplementationFails ==
    (/\ lastCall.op = "run"
     /\ \/ kind(lastCall.exec) \notin Overrides(lastCall.operation)
        \/ /\ lastCall.operation = "set_all_statuses"
           /\ kind(lastCall.exec) \notin CompiledModules)
        => /\ lastCall.status = "NotSupported"
           /\ lastCall.ran = <<>>
           /\ lastCall.value = lastCall.valueBefore

C5_Witness ==
    /\ lastCall.op = "run"
    /\ lastCall.exec = "cuda"
    /\ lastCall.operation = "set_all_statuses"
    /\ lastCall.status = "NotSupported"

\* C6: a copy routine raises a runtime error carrying the backend's status
\* when the transfer call fails, and returns normally only when the backend
\* reported success.
C6_CopyFailureRaises ==
    lastCall.op = "copy_from" =>
        /\ lastCall.status = "ok" <=> lastCall.code = "cudaSuccess"
        /\ lastCall.code # "cudaSuccess" =>
             /\ lastCall.status = "CudaError"
             /\ lastCall.errcode = lastCall.code

C6_Witness ==
    /\ lastCall.op = "copy_from"
    /\ lastCall.from \in AccelExecs
    /\ lastCall.exec \in AccelExecs
    /\ lastCall.code = "cudaErrorInvalidValue"
    /\ lastCall.status = "CudaError"

\* C7: a copy of zero bytes is a no-op: it succeeds and hands neither
\* src_ptr nor dest_ptr to a backend transfer call.
C7_ZeroByteCopyIsNoOp ==
    (lastCall.op = "copy_from" /\ lastCall.n = 0) =>
        /\ lastCall.status = "ok"
        /\ \A i \in DOMAIN lastCall.calls : lastCall.calls[i].fn # "cudaMemcpy"

ExpectedDirection(from, to) ==
    IF from \in CpuExecs THEN "cudaMemcpyHostToDevice"
    ELSE IF to \in CpuExecs THEN "cudaMemcpyDeviceToHost"
    ELSE "cudaMemcpyDeviceToDevice"

\* C8: for every (source, destination) pair exactly one copy routine runs
\* and its transfer direction matches the pair; after a successful copy the
\* bytes are in the destination buffer, in the destination's memory space.
C8_CopyDirection ==
    lastCall.op = "copy_from" =>
        /\ Len(lastCall.routines) = 1
        /\ Len(lastCall.calls) = 1
        /\ lastCall.calls[1].direction =
             ExpectedDirection(lastCall.from, lastCall.exec)
        /\ (lastCall.status = "ok" /\ lastCall.n > 0) =>
             /\ lastCall.ptr.space =
                  (IF lastCall.exec \in CpuExecs THEN "host" ELSE "dev")
             /\ lastCall.exec \in AccelExecs =>
                  lastCall.ptr.dev = get_device_id(lastCall.exec)
             /\ Prefix(Contents(World, lastCall.ptr), lastCall.n) =
                  Prefix(Contents(World, lastCall.srcPtr), lastCall.n)

C8_Witness ==
    /\ lastCall.op = "copy_from"
    /\ lastCall.from = "hip"
    /\ lastCall.exec = "hip2"
    /\ lastCall.status = "ok"
    /\ lastCall.n = BufLen
    /\ get_device_id("hip") # get_device_id("hip2")
    /\ devMem[get_device_id("hip2")][lastCall.ptr.idx] = Data38

\* C9: copying a buffer x to another executor and copying the result back
\* into a fresh buffer yields x.
C9_RoundTrip == rt.done => rt.z = rt.x

C9_Witness ==
    /\ rt.done
    /\ rt.a = HostPtr(OrigBuf)
    /\ rt.y.space = "dev"
    /\ rt.x = Data38
    /\ hostMem[CopyBuf] = Data38

\* C10: when work on an accelerator executor's device has failed, the next
\* synchronize() on that executor raises; it never returns normally.
C10_AsyncFailureSurfaces ==
    (lastCall.op = "synchronize" /\ lastCall.devFailed)
        => lastCall.status # "ok"

\* C11: synchronize() on an accelerator executor does not return before all
\* work enqueued on that executor's stream before the call has completed.
C11_SynchronizeWaits ==
    (lastCall.op = "synchronize" /\ lastCall.exec \in AccelExecs)
        => queue[get_device_id(lastCall.exec)] = <<>>

\* C12: a copy_from that reads a device buffer observes the writes of every
\* kernel issued on the source executor's stream before it: with init_data
\* pending on the buffer, the copy delivers {3, 8}.
C12_IssueOrder ==
    (/\ lastCall.op = "copy_from"
     /\ lastCall.status = "ok"
     /\ lastCall.from \in AccelExecs
     /\ lastCall.n = BufLen
     /\ \E i \in DOMAIN lastCall.pending :
            /\ lastCall.pending[i].name = "init_data"
            /\ lastCall.pending[i].ptr = lastCall.srcPtr)
        => Prefix(Contents(World, lastCall.ptr), lastCall.n) = Data38

C14_QueryFailureRaises ==
    lastCall.op = "get_num_devices" =>
        /\ lastCall.code # "cudaSuccess" => lastCall.status # "ok"
        /\ (lastCall.code = "cudaSuccess" /\ driver.visible > 0) =>
             /\ lastCall.status = "ok"
             /\ lastCall.value = driver.visible

\* C15: alloc(0) succeeds, raising no AllocationError, and freeing the
\* pointer it returned does not fail.
C15_AllocZeroSucceeds ==
    (lastCall.op = "alloc" /\ lastCall.n = 0) =>
        /\ lastCall.status = "ok"
        /\ GpuExecutor_free(World, curDev, lastCall.exec,
                            lastCall.ptr).status = "ok"

\* C16: free(ptr) never raises, whatever the backend's release call
\* reports, a null pointer included.
C16_FreeNeverRaises == lastCall.op = "free" => lastCall.status = "ok"

C16_Witness ==
    /\ lastCall.op = "free"
    /\ lastCall.code # "cudaSuccess"
    /\ lastCall.status = "ok"

OverAllocFailed(c) ==
    /\ c.op = "alloc"
    /\ c.n > BufLen
    /\ c.status = "AllocationError"

\* C17: when alloc of an oversized request fails with AllocationError, the
\* allocations of the devices are what they were before the call, no pointer
\* reaches the caller, and a following free of the caller's pointer and a
\* following synchronize do not fail.
C17_FailedAllocLeavesNoTrace ==
    /\ [][OverAllocFailed(lastCall') =>
            (devMem' = devMem /\ failed' = failed /\ queue' = queue)]_vars
    /\ [](OverAllocFailed(lastCall) =>
            /\ lastCall.ptr = Null
            /\ GpuExecutor_free(World, curDev, lastCall.exec,
                                lastCall.ptr).status = "ok"
            /\ GpuExecutor_synchronize(World, curDev,
                                       lastCall.exec).status = "ok")

C17_Witness ==
    /\ OverAllocFailed(lastCall)
    /\ lastCall.code = "cudaErrorMemoryAllocation"
    /\ \E i \in Slots : devMem[curDev][i] # Unalloc
    /\ \E i \in Slots : devMem[curDev][i] = Unalloc

\* C18: once a call on an executor has reported the unrecoverable device
\* failure, every later alloc, copy_from and synchronize on that executor
\* fails as well; none returns normally.
C18_FailureIsSticky ==
    [][(/\ lastCall'.op \in {"alloc", "copy_from", "synchronize"}
        /\ lastCall'.exec \in reported)
            => lastCall'.status # "ok"]_vars

\* C19: difference(start, stop) of an event timer waits on the stop event
\* first and queries the elapsed time only then: when it is left the stop
\* marker, if recorded, has fired and all work enqueued ahead of it has
\* completed, and a time it returns is the time between the fired events.
C19_DifferenceWaitsForStop ==
    lastCall.op = "difference" =>
        /\ timer.stop # "pending"
        /\ "stop" \notin Items(timer)
        /\ timer.stop = "fired" => timer.clock >= timer.ahead
        /\ lastCall.calls[1].fn = "cudaEventSynchronize"
        /\ lastCall.status = "ok" =>
             /\ timer.start = "fired"
             /\ timer.stop = "fired"
             /\ lastCall.calls[2].fn = "cudaEventElapsedTime"
             /\ lastCall.value = (timer.stopAt - timer.startAt) * 1000000

C19_Witness ==
    /\ lastCall.op = "difference"
    /\ lastCall.status = "ok"
    /\ lastCall.pending = <<"work", "stop">>
    /\ lastCall.value > 0

\* C20: when two threads share one executor, under every interleaving of
\* their calls each call's backend work runs on the executor's bound device,
\* and after all calls every thread's current device is what it was before.
C20_SharedExecutor ==
    threads # NoThreads =>
        /\ lastCall.op \in PublicOps =>
             lastCall.devDuring = get_device_id(lastCall.exec)
        /\ (\A t \in Threads : threads[t].left = 0) =>
             \A t \in Threads : threads[t].dev = threads[t].start

C22_IdleSynchronizeSucceeds ==
    [][(/\ lastCall'.op = "synchronize"
        /\ queue[get_device_id(lastCall'.exec)] = <<>>
        /\ ~failed[get_device_id(lastCall'.exec)])
            => lastCall'.status = "ok"]_vars

\* C23: get_timer returns an event timer exactly when use_gpu_timer is set
\* and exec is a CUDA or HIP executor whose backend is compiled in; in every
\* other case it returns a CpuTimer; it never returns null.
C23_TimerFactory ==
    (sel # Absent /\ sel.timer # "pending") =>
        /\ sel.timer \in EventTimers <=>
             /\ sel.use_gpu_timer
             /\ sel.exec \in {"cuda", "hip", "hip2"}
             /\ IF sel.exec = "cuda" THEN sel.HAS_CUDA ELSE sel.HAS_HIP
        /\ sel.timer \notin EventTimers => sel.timer = "CpuTimer"
        /\ sel.timer # "null"

C23_Witness ==
    /\ sel # Absent
    /\ sel.exec = "hip"
    /\ sel.use_gpu_timer
    /\ sel.HAS_HIP
    /\ ~sel.HAS_CUDA
    /\ sel.timer = "HipTimer"

\* a smoother list size that is neither 0, 1 nor mg_level's
Illegal(len, ref_len) == len > 1 /\ len # ref_len

C29_DefaultSelectorsInRange ==
    mg # Absent =>
        /\ (mg.selection.list = "mg_level"
            /\ mg.params.mg_level_index = "nullptr")
               => mg.selection.index < Len(mg.params.mg_level)
        /\ (mg.selection.list = "coarsest_solver"
            /\ mg.params.solver_index = "nullptr")
               => mg.selection.index < Len(mg.params.coarsest_solver)

\* C25: set_residual_tolerance changes only what get_residual_tolerance
\* returns, set_max_iterations only what get_max_iterations returns, and
\* get_parameters keeps reporting the values given to the factory.
C25_SettersLeaveParameters ==
    [][(bicg # Absent /\ bicg'.last # "build") =>
        /\ get_parameters(bicg'.solver) = bicg'.factory
        /\ bicg'.last = "set_residual_tolerance" =>
             /\ get_residual_tolerance(bicg'.solver) = bicg'.arg
             /\ get_max_iterations(bicg'.solver)
                  = get_max_iterations(bicg.solver)
        /\ bicg'.last = "set_max_iterations" =>
             /\ get_max_iterations(bicg'.solver) = bicg'.arg
             /\ get_residual_tolerance(bicg'.solver)
                  = get_residual_tolerance(bicg.solver)]_vars

C25_Witness ==
    /\ bicg # Absent
    /\ bicg.last = "set_max_iterations"
    /\ bicg.factory.default_max_iterations = 22
    /\ bicg.factory.default_residual_tol = 25
    /\ get_max_iterations(bicg.solver) = 10
    /\ get_residual_tolerance(bicg.solver) = 50

\* C26: run_kernel_reduction returns finalize of the fold, from the
\* identity, of the operator over the kernel value at every index, each
\* index contributing exactly once whatever the number of threads; an empty
\* range gives finalize(identity).
C26_ReductionIsFold ==
    (red # Absent /\ red.returned) =>
        /\ red.result =
             finalize(red.size,
                      local_partial(red.size, 0, num_indices(red.size),
                                    identity))
        /\ \A i \in DOMAIN red.visits : red.visits[i] = 1
        /\ num_indices(red.size) = 0 =>
             red.result = finalize(red.size, identity)

C26_Witness ==
    /\ red # Absent
    /\ red.size = <<2, 3>>
    /\ red.num_threads = 3
    /\ red.returned
    /\ red.result = 4 * 18

\* two column indices of one block row are out of order
OutOfOrder(mat) ==
    \E brow \in 1..NumBrows :
        \E p \in RowRange(mat, brow), q \in RowRange(mat, brow) :
            p < q /\ mat.col_idxs[p] > mat.col_idxs[q]

C28_KrylovDimDefault ==
    gm # Absent =>
        /\ gm.last = "generate" =>
             get_krylov_dim(gm.solver) =
                 IF gm.factory.krylov_dim = 0 THEN 100
                 ELSE gm.factory.krylov_dim
        /\ gm.last = "set_krylov_dim" => get_krylov_dim(gm.solver) = gm.arg

C28_Witness ==
    /\ gm # Absent
    /\ gm.factory.krylov_dim = 0
    /\ gm.last = "set_krylov_dim"
    /\ gm.arg = 0
    /\ get_krylov_dim(gm.solver) = 0

\* C30: every array allocated by a request or status constructor is released
\* exactly once: never twice, and once when no object holding it is left.
C30_ReleasedExactlyOnce ==
    mpi # Absent =>
        \A a \in MpiArrays :
            /\ mpi.released[a] <= 1
            /\ (mpi.allocated[a]
                /\ \A o \in MpiObjects :
                     mpi.obj[o].state = "live" => mpi.obj[o].ptr # a)
                   => mpi.released[a] = 1

====
